---- MODULE Spec2Model ----
(***************************************************************************)
(* A model of the simulated filesystem of nios-scriptable-wrapper          *)
(* (FilesystemWrapper.ts: FilesystemWrapper, FakeDirectory, FakeFile).     *)
(*                                                                         *)
(* JavaScript strings are modelled as tuples of one-character strings, so  *)
(* that String.split and the truthiness of the empty string are computed   *)
(* and not assumed.  Objects with identity (FakeDirectory, FakeFile, the   *)
(* arrays a FakeFile hands out) live in heaps and are referred to by       *)
(* address; an array nothing refers to any more is dropped from the heap.  *)
(*                                                                         *)
(* Four specifications share the module:                                   *)
(*   SpecFile  one FakeFile: tags, extended attributes, the snapshots      *)
(*   SpecDir   one FakeDirectory with its files, and the directories       *)
(*             handed to it                                                *)
(*   SpecTree  several FakeDirectory objects and their containment         *)
(*   SpecPath  FilesystemWrapper.directoriesFromPath as a function of path *)
(***************************************************************************)
EXTENDS Integers, Sequences, FiniteSets, TLC

VARIABLES
    arrays,     \* SpecFile: heap of string arrays, address -> contents
    file,       \* SpecFile: the FakeFile object
    snap,       \* SpecFile: address of the array the caller got last from allTags() or
                \* allExtendedAttributes(), 0 if none
    fop,        \* SpecFile: the last call made on the FakeFile and its result
    written,    \* SpecFile: history, key -> value of the most recent write for the key
    dirs,       \* SpecDir: heap of FakeDirectory objects, address -> object
    dop,        \* SpecDir: the last call made and its outcome
    hist,       \* SpecDir: history, address -> what was added to the directory, in order
    path,       \* SpecPath: the path argument
    pres        \* SpecPath: the outcome of directoriesFromPath(path)

vars == <<arrays, file, snap, fop, written, dirs, dop, hist, path, pres>>

----------------------------------------------------------------------------
(* Bounds of the model *)

\* longest array a caller grows a snapshot to
MaxLen == 3

----------------------------------------------------------------------------
(* JavaScript values and built-ins *)

\* the string s of one character
Str1(c) == <<c>>

EmptyStr == <<>>

\* Array.prototype.includes
includes(arr, x) == \E i \in 1..Len(arr) : arr[i] = x

\* Array.prototype.indexOf: the 0-based index of the first element equal to x, or -1
indexOf(arr, x) ==
    IF includes(arr, x)
    THEN (CHOOSE i \in 1..Len(arr) : arr[i] = x /\ \A j \in 1..(i - 1) : arr[j] # x) - 1
    ELSE -1

\* Array.prototype.push, as the array after the call
push(arr, x) == Append(arr, x)

\* Array.prototype.splice(start, 1) with a 0-based start inside the array, as the array after the call
splice1(arr, start) ==
    SubSeq(arr, 1, start) \o SubSeq(arr, start + 2, Len(arr))

\* Array.from(iterable): a new array with the same elements
ArrayFrom(arr) == [i \in 1..Len(arr) |-> arr[i]]

\* the value undefined / null, and a string value, as results of a lookup
Undefined == [kind |-> "undefined", val |-> EmptyStr]
Null == [kind |-> "null", val |-> EmptyStr]
Some(v) == [kind |-> "string", val |-> v]

\* JavaScript truthiness of (string | undefined | null): undefined, null and "" are falsy
Truthy(x) == x.kind = "string" /\ Len(x.val) > 0

\* Map: entries <<key, value>> in insertion order
MapHas(m, k) == \E i \in 1..Len(m) : m[i][1] = k

MapGet(m, k) ==
    IF MapHas(m, k)
    THEN Some(m[CHOOSE i \in 1..Len(m) : m[i][1] = k][2])
    ELSE Undefined

\* Map.prototype.set: an existing key keeps its place, a new key goes last
MapSet(m, k, v) ==
    IF MapHas(m, k)
    THEN [i \in 1..Len(m) |-> IF m[i][1] = k THEN <<k, v>> ELSE m[i]]
    ELSE Append(m, <<k, v>>)

\* Map.prototype.keys, in insertion order
MapKeys(m) == [i \in 1..Len(m) |-> m[i][1]]

----------------------------------------------------------------------------
(* FakeFile *)

Tags == {Str1("t"), Str1("u")}
Keys == {Str1("k"), Str1("j")}
Values == {EmptyStr, Str1("x"), Str1("y")}

\* new FakeFile(name, extension): tags is a new empty array at address tagsAddr
NewFakeFile(name, extension, tagsAddr) ==
    [name |-> name, extension |-> extension, tags |-> tagsAddr,
     extattrs |-> <<>>, uti |-> EmptyStr, bookmarks |-> <<>>]

\* an addTag that pushes without looking
addTag_noCheck(tags, tag) == push(tags, tag)

\* FakeFile.addTag: the tags array after the call
addTag_(tags, tag) ==
    IF ~includes(tags, tag) THEN push(tags, tag) ELSE tags

\* FakeFile.removeTag: the tags array after the call
removeTag_(tags, tag) ==
    IF includes(tags, tag) THEN splice1(tags, indexOf(tags, tag)) ELSE tags

\* the address of a new array: one no array of the heap h has
Fresh(h) == CHOOSE a \in 1..(Cardinality(DOMAIN h) + 1) : a \notin DOMAIN h

\* the heap h without the arrays nothing refers to any more
Collect(h, roots) == [a \in DOMAIN h \cap roots |-> h[a]]

\* an allTags that returns this.tags itself
allTags_live(h, f) == [heap |-> h, ret |-> f.tags]

\* FakeFile.allTags: the heap after the call and the address returned
allTags_(h, f) ==
    [heap |-> (Fresh(h) :> ArrayFrom(h[f.tags])) @@ h, ret |-> Fresh(h)]

\* FakeFile.allExtendedAttributes: the heap after the call and the address returned
allExtendedAttributes_(h, f) ==
    [heap |-> (Fresh(h) :> ArrayFrom(MapKeys(f.extattrs))) @@ h, ret |-> Fresh(h)]

\* FakeFile.readExtendedAttribute
readExtendedAttribute_(f, name) ==
    LET attr == MapGet(f.extattrs, name)
    IN  IF Truthy(attr) THEN attr ELSE Null

\* FakeFile.writeExtendedAttribute(value, name): the file after the call
writeExtendedAttribute_(f, value, name) ==
    [f EXCEPT !.extattrs = MapSet(f.extattrs, name, value)]

\* FakeFile.getUTI
getUTI_(f) == f.uti

NoFileOp == [op |-> "none", tag |-> EmptyStr, key |-> EmptyStr, value |-> EmptyStr,
             result |-> Null, addr |-> 0]

FileOp(op) == [NoFileOp EXCEPT !.op = op]

\* the caller's own string, in no tag or key set
Junk == Str1("z")

FileIdle == UNCHANGED <<dirs, dop, hist, path, pres>>

InitFile ==
    /\ arrays = (1 :> <<>>)
    /\ file = NewFakeFile(Str1("f"), Str1("e"), 1)
    /\ snap = 0
    /\ fop = NoFileOp
    /\ written = [k \in Keys |-> Undefined]

AddTag ==
    /\ \E t \in Tags :
        /\ arrays' = [arrays EXCEPT ![file.tags] = addTag_(@, t)]
        /\ fop' = [FileOp("addTag") EXCEPT !.tag = t]
    /\ UNCHANGED <<file, snap, written>>
    /\ FileIdle

RemoveTag ==
    /\ \E t \in Tags :
        /\ arrays' = [arrays EXCEPT ![file.tags] = removeTag_(@, t)]
        /\ fop' = [FileOp("removeTag") EXCEPT !.tag = t]
    /\ UNCHANGED <<file, snap, written>>
    /\ FileIdle

\* snap = file.allTags(); the array snap referred to before is garbage
AllTags ==
    /\ LET r == allTags_(arrays, file)
       IN  /\ arrays' = Collect(r.heap, {file.tags, r.ret})
           /\ snap' = r.ret
           /\ fop' = [FileOp("allTags") EXCEPT !.addr = r.ret]
    /\ UNCHANGED <<file, written>>
    /\ FileIdle

\* snap = file.allExtendedAttributes(); the array snap referred to before is garbage
AllExtendedAttributes ==
    /\ LET r == allExtendedAttributes_(arrays, file)
       IN  /\ arrays' = Collect(r.heap, {file.tags, r.ret})
           /\ snap' = r.ret
           /\ fop' = [FileOp("allExtendedAttributes") EXCEPT !.addr = r.ret]
    /\ UNCHANGED <<file, written>>
    /\ FileIdle

WriteExtendedAttribute ==
    /\ \E v \in Values, k \in Keys :
        /\ file' = writeExtendedAttribute_(file, v, k)
        /\ written' = [written EXCEPT ![k] = Some(v)]
        /\ fop' = [FileOp("writeExtendedAttribute") EXCEPT !.key = k, !.value = v]
    /\ UNCHANGED <<arrays, snap>>
    /\ FileIdle

ReadExtendedAttribute ==
    /\ \E k \in Keys :
        fop' = [FileOp("readExtendedAttribute") EXCEPT
                   !.key = k, !.result = readExtendedAttribute_(file, k)]
    /\ UNCHANGED <<arrays, file, snap, written>>
    /\ FileIdle

GetUTI ==
    /\ fop' = [FileOp("getUTI") EXCEPT !.result = Some(getUTI_(file))]
    /\ UNCHANGED <<arrays, file, snap, written>>
    /\ FileIdle

\* the caller pushes onto the array a snapshot call returned
CallerPush ==
    /\ snap # 0
    /\ Len(arrays[snap]) < MaxLen
    /\ arrays' = [arrays EXCEPT ![snap] = push(@, Junk)]
    /\ fop' = [FileOp("callerPush") EXCEPT !.addr = snap]
    /\ UNCHANGED <<file, snap, written>>
    /\ FileIdle

\* the caller empties the array a snapshot call returned (arr.length = 0)
CallerClear ==
    /\ snap # 0
    /\ Len(arrays[snap]) > 0
    /\ arrays' = [arrays EXCEPT ![snap] = <<>>]
    /\ fop' = [FileOp("callerClear") EXCEPT !.addr = snap]
    /\ UNCHANGED <<file, snap, written>>
    /\ FileIdle

NextFile ==
    \/ AddTag
    \/ RemoveTag
    \/ AllTags
    \/ AllExtendedAttributes
    \/ WriteExtendedAttribute
    \/ ReadExtendedAttribute
    \/ GetUTI
    \/ CallerPush
    \/ CallerClear

----------------------------------------------------------------------------
(* FakeDirectory *)

\* number of FakeDirectory objects SpecTree constructs
MaxDirs == 3
\* longest files or subdirectories list passed to the constructor or to addFiles / addSubdirectories
MaxBatch == 2

NameA == Str1("a")
NameB == Str1("b")
ExtTxt == <<"t", "x", "t">>
ExtMd == <<"m", "d">>
RootName == <<"r", "o", "o", "t">>
LocalName == <<"l", "o", "c", "a", "l">>
ICloudName == <<"i", "C", "l", "o", "u", "d">>

DirNames == {NameA, NameB}

\* the FakeFile objects of the directory model, by address: 1 and 3 are two
\* objects with the same name and extension, 2 shares only the name with them
FakeFiles ==
    << [name |-> NameA, extension |-> ExtTxt],
       [name |-> NameA, extension |-> ExtMd],
       [name |-> NameA, extension |-> ExtTxt] >>

FileIds == 1..Len(FakeFiles)

\* an optional constructor argument: left out, or given
Absent == [given |-> FALSE, val |-> <<>>]
Given(v) == [given |-> TRUE, val |-> v]

\* sequences over S of length at most n
RECURSIVE SeqsUpTo(_, _)
SeqsUpTo(S, n) ==
    IF n = 0 THEN {<<>>}
    ELSE LET shorter == SeqsUpTo(S, n - 1)
         IN  shorter \cup {Append(q, x) : q \in shorter, x \in S}

\* new FakeDirectory(name, files?, bookmarks?, subdirectories?): the object.  The
\* arrays are passed by value: the caller keeps no reference to them.
NewFakeDirectory(name, files, bookmarks, subdirectories) ==
    [name |-> name,
     files |-> IF files.given THEN files.val ELSE <<>>,
     bookmarks |-> IF bookmarks.given THEN bookmarks.val ELSE <<>>,
     subdirectories |-> IF subdirectories.given THEN subdirectories.val ELSE <<>>]

\* the heap after `new FakeDirectory(...)`; the new object's address is Len(h) + 1
Alloc(h, obj) == Append(h, obj)

\* an addFile that compares the names only
addFile_nameOnly(h, this, f) ==
    LET exists == Len(SelectSeq(h[this].files,
                        LAMBDA g : FakeFiles[g].name = FakeFiles[f].name)) > 0
    IN  IF exists
        THEN [threw |-> TRUE, heap |-> h]
        ELSE [threw |-> FALSE, heap |-> [h EXCEPT ![this].files = push(@, f)]]

\* FakeDirectory.addFile on the directory at address this: whether it threw, the heap after
addFile_(h, this, f) ==
    LET exists == Len(SelectSeq(h[this].files,
                        LAMBDA g : /\ FakeFiles[g].name = FakeFiles[f].name
                                   /\ FakeFiles[g].extension = FakeFiles[f].extension)) > 0
    IN  IF exists
        THEN [threw |-> TRUE, heap |-> h]
        ELSE [threw |-> FALSE, heap |-> [h EXCEPT ![this].files = push(@, f)]]

\* the loop of FakeDirectory.addFiles from element i (1-based) on
RECURSIVE addFilesFrom(_, _, _, _)
addFilesFrom(h, this, files, i) ==
    IF i > Len(files)
    THEN [threw |-> FALSE, heap |-> h]
    ELSE LET r == addFile_(h, this, files[i])
         IN  IF r.threw THEN r ELSE addFilesFrom(r.heap, this, files, i + 1)

\* an addFiles that adds nothing when an element fails
addFiles_atomic(h, this, files) ==
    LET r == addFilesFrom(h, this, files, 1)
    IN  IF r.threw THEN [threw |-> TRUE, heap |-> h] ELSE r

\* FakeDirectory.addFiles.  The batch is passed by value: a batch that is the
\* directory's own files array throws at its first element, as its copy does.
addFiles_(h, this, files) == addFilesFrom(h, this, files, 1)

\* an addSubdirectory that stores and returns a copy of dir
addSubdirectory_copy(h, this, dir) ==
    LET exists == Len(SelectSeq(h[this].subdirectories,
                        LAMBDA d : h[d].name = h[dir].name)) > 0
    IN  IF exists
        THEN [threw |-> TRUE, heap |-> h, ret |-> 0]
        ELSE LET h1 == Alloc(h, h[dir])
             IN  [threw |-> FALSE,
                  heap |-> [h1 EXCEPT ![this].subdirectories = push(@, Len(h1))],
                  ret |-> Len(h1)]

\* FakeDirectory.addSubdirectory: whether it threw, the heap after, the address returned
addSubdirectory_(h, this, dir) ==
    LET exists == Len(SelectSeq(h[this].subdirectories,
                        LAMBDA d : h[d].name = h[dir].name)) > 0
    IN  IF exists
        THEN [threw |-> TRUE, heap |-> h, ret |-> 0]
        ELSE LET h1 == [h EXCEPT ![this].subdirectories = push(@, dir)]
                 newDir == indexOf(h1[this].subdirectories, dir)
             IN  IF newDir = -1
                 THEN [threw |-> TRUE, heap |-> h1, ret |-> 0]
                 ELSE [threw |-> FALSE, heap |-> h1,
                       ret |-> h1[this].subdirectories[newDir + 1]]

\* the loop of FakeDirectory.addSubdirectories from element i (1-based) on
RECURSIVE addSubdirectoriesFrom(_, _, _, _)
addSubdirectoriesFrom(h, this, ds, i) ==
    IF i > Len(ds)
    THEN [threw |-> FALSE, heap |-> h, ret |-> 0]
    ELSE LET r == addSubdirectory_(h, this, ds[i])
         IN  IF r.threw
             THEN [threw |-> TRUE, heap |-> r.heap, ret |-> 0]
             ELSE addSubdirectoriesFrom(r.heap, this, ds, i + 1)

\* FakeDirectory.addSubdirectories
addSubdirectories_(h, this, ds) == addSubdirectoriesFrom(h, this, ds, 1)

\* a listContents that lists the files before the subdirectories
listContents_filesFirst(h, this) ==
    [i \in 1..Len(h[this].files) |-> FakeFiles[h[this].files[i]].name]
        \o [i \in 1..Len(h[this].subdirectories) |-> h[h[this].subdirectories[i]].name]

\* FakeDirectory.listContents
listContents_(h, this) ==
    [i \in 1..Len(h[this].subdirectories) |-> h[h[this].subdirectories[i]].name]
        \o [i \in 1..Len(h[this].files) |-> FakeFiles[h[this].files[i]].name]

\* FilesystemWrapper.basicFilesystem: the heap after and the address of wrapper.root
basicFilesystem_(h) ==
    LET h1 == Alloc(h, NewFakeDirectory(RootName, Absent, Absent, Absent))
        root == Len(h1)
        h2 == Alloc(h1, NewFakeDirectory(LocalName, Absent, Absent, Absent))
        r2 == addSubdirectory_(h2, root, Len(h2))
        h3 == Alloc(r2.heap, NewFakeDirectory(ICloudName, Absent, Absent, Absent))
        r3 == addSubdirectory_(h3, root, Len(h3))
    IN  IF r2.threw
        THEN [threw |-> TRUE, heap |-> r2.heap, root |-> 0]
        ELSE IF r3.threw
             THEN [threw |-> TRUE, heap |-> r3.heap, root |-> 0]
             ELSE [threw |-> FALSE, heap |-> r3.heap, root |-> root]

NoDirOp == [op |-> "none", this |-> 0, f |-> 0, dir |-> 0, grand |-> 0,
            files |-> <<>>, n |-> 0, threw |-> FALSE, ret |-> 0, result |-> <<>>]

DirOp(op, this) == [NoDirOp EXCEPT !.op = op, !.this = this]

DirIds == 1..Len(dirs)

\* the lists of files passed to addFiles and to the constructor
FileBatches == SeqsUpTo(FileIds, MaxBatch)

FileArgs == {Absent} \cup {Given(q) : q \in FileBatches}
SubdirArgs == {Absent} \cup {Given(q) : q \in SeqsUpTo(DirIds, MaxBatch)}

\* the history of a directory as it is constructed: its initial lists
NewHist(obj) == [subs |-> obj.subdirectories, files |-> obj.files]

\* the history brought up to the heap h: objects created since start with their initial lists
HistSync(hs, h) ==
    [a \in 1..Len(h) |-> IF a <= Len(hs) THEN hs[a] ELSE NewHist(h[a])]

\* the history after the directory at address this took n more subdirectories of ds
\* and m more files of fs, by successful addSubdirectory and addFile calls
HistAdd(hs, this, ds, n, fs, m) ==
    [hs EXCEPT ![this] = [subs |-> @.subs \o SubSeq(ds, 1, n),
                          files |-> @.files \o SubSeq(fs, 1, m)]]

DirIdle == UNCHANGED <<arrays, file, snap, fop, written, path, pres>>

InitDir ==
    /\ dirs = <<>>
    /\ dop = NoDirOp
    /\ hist = <<>>

\* d = new FakeDirectory(name, files?, undefined, subdirectories?)
CallConstruct(name, files, subs) ==
    /\ dirs' = Alloc(dirs, NewFakeDirectory(name, files, Absent, subs))
    /\ hist' = HistSync(hist, dirs')
    /\ dop' = DirOp("new", Len(dirs'))
    /\ DirIdle

\* this.addFile(f)
CallAddFile(this, f) ==
    LET r == addFile_(dirs, this, f)
    IN  /\ dirs' = r.heap
        /\ hist' = IF r.threw THEN hist ELSE HistAdd(hist, this, <<>>, 0, <<f>>, 1)
        /\ dop' = [DirOp("addFile", this) EXCEPT !.f = f, !.threw = r.threw]
        /\ DirIdle

\* this.addFiles(files)
CallAddFiles(this, files) ==
    LET r == addFiles_(dirs, this, files)
        added == Len(r.heap[this].files) - Len(dirs[this].files)
    IN  /\ dirs' = r.heap
        /\ hist' = HistAdd(hist, this, <<>>, 0, files, added)
        /\ dop' = [DirOp("addFiles", this) EXCEPT
                      !.files = files, !.n = added, !.threw = r.threw]
        /\ DirIdle

\* ret = this.addSubdirectory(dir)
CallAddSubdirectory(this, dir) ==
    LET r == addSubdirectory_(dirs, this, dir)
    IN  /\ dirs' = r.heap
        /\ hist' = IF r.threw THEN hist
                   ELSE HistAdd(HistSync(hist, dirs'), this, <<dir>>, 1, <<>>, 0)
        /\ dop' = [DirOp("addSubdirectory", this) EXCEPT
                      !.dir = dir, !.threw = r.threw, !.ret = r.ret]
        /\ DirIdle

\* this.addSubdirectory(dir).addSubdirectory(grand): the chained attachment
CallAddChained(this, dir, grand) ==
    LET r1 == addSubdirectory_(dirs, this, dir)
        r2 == addSubdirectory_(r1.heap, r1.ret, grand)
        h1 == HistAdd(HistSync(hist, r1.heap), this, <<dir>>, 1, <<>>, 0)
    IN  /\ ~r1.threw
        /\ dirs' = r2.heap
        /\ hist' = IF r2.threw THEN h1
                   ELSE HistAdd(HistSync(h1, dirs'), r1.ret, <<grand>>, 1, <<>>, 0)
        /\ dop' = [DirOp("addChained", this) EXCEPT
                      !.dir = dir, !.grand = grand, !.threw = r2.threw, !.ret = r1.ret]
        /\ DirIdle

\* this.addSubdirectories(ds)
CallAddSubdirectories(this, ds) ==
    LET r == addSubdirectories_(dirs, this, ds)
        added == Len(r.heap[this].subdirectories) - Len(dirs[this].subdirectories)
    IN  /\ dirs' = r.heap
        /\ hist' = HistAdd(HistSync(hist, dirs'), this, ds, added, <<>>, 0)
        /\ dop' = DirOp("addSubdirectories", this)
        /\ DirIdle

\* this.listContents()
CallListContents(this) ==
    /\ dop' = [DirOp("listContents", this) EXCEPT !.result = listContents_(dirs, this)]
    /\ UNCHANGED <<dirs, hist>>
    /\ DirIdle

\* wrapper = FilesystemWrapper.basicFilesystem(); root = wrapper.root
CallBasicFilesystem ==
    LET r == basicFilesystem_(dirs)
    IN  /\ dirs' = r.heap
        /\ hist' = IF r.threw THEN HistSync(hist, dirs')
                   ELSE HistAdd(hist \o <<NewHist(NewFakeDirectory(RootName, Absent, Absent, Absent)),
                                          NewHist(NewFakeDirectory(LocalName, Absent, Absent, Absent)),
                                          NewHist(NewFakeDirectory(ICloudName, Absent, Absent, Absent))>>,
                                r.root, <<r.root + 1, r.root + 2>>, 2, <<>>, 0)
        /\ dop' = [DirOp("basicFilesystem", r.root) EXCEPT !.threw = r.threw]
        /\ DirIdle

(* SpecDir: one directory under test, at address 1, with its files, and the *)
(* directories handed to it.                                                *)

\* the address of the directory under test: the first one constructed
Target == CHOOSE d \in DirIds : \A e \in DirIds : d <= e

\* the directory under test is constructed, with or without a files list; it is
\* named a: exchanging the two directory names maps every run to a run
NewTarget ==
    /\ dirs = <<>>
    /\ \E files \in FileArgs : CallConstruct(NameA, files, Absent)

\* a directory to hand to the directory under test is constructed: one of each name
NewChild ==
    /\ dirs # <<>>
    /\ dirs[Target].name \in DirNames
    /\ \E name \in DirNames :
           /\ \A d \in DirIds \ {Target} : dirs[d].name # name
           /\ CallConstruct(name, Absent, Absent)

\* the directory under test is the root of a basic filesystem
BasicFilesystem ==
    /\ dirs = <<>>
    /\ CallBasicFilesystem

AddFile ==
    /\ dirs # <<>>
    /\ \E f \in FileIds : CallAddFile(Target, f)

AddFiles ==
    /\ dirs # <<>>
    /\ \E files \in FileBatches : CallAddFiles(Target, files)

AddSubdirectory ==
    /\ dirs # <<>>
    /\ \E dir \in DirIds : CallAddSubdirectory(Target, dir)

ListContents ==
    /\ dirs # <<>>
    /\ CallListContents(Target)

NextDir ==
    \/ NewTarget
    \/ NewChild
    \/ BasicFilesystem
    \/ AddFile
    \/ AddFiles
    \/ AddSubdirectory
    \/ ListContents

(* SpecTree: the containment graph of several directories, without files. *)

\* the first directory is named a: exchanging the two names maps every run to a run
TreeNew ==
    /\ Len(dirs) < MaxDirs
    /\ \E name \in (IF dirs = <<>> THEN {NameA} ELSE DirNames), subs \in SubdirArgs :
           CallConstruct(name, Absent, subs)

TreeAddSubdirectory ==
    \E this \in DirIds, dir \in DirIds : CallAddSubdirectory(this, dir)

TreeAddChained ==
    \E this \in DirIds, dir \in DirIds, grand \in DirIds : CallAddChained(this, dir, grand)

\* batches of MaxBatch directories: a shorter batch is a prefix of one of them
TreeAddSubdirectories ==
    \E this \in DirIds, ds \in [1..MaxBatch -> DirIds] : CallAddSubdirectories(this, ds)

NextTree ==
    \/ TreeNew
    \/ TreeAddSubdirectory
    \/ TreeAddChained
    \/ TreeAddSubdirectories

----------------------------------------------------------------------------
(* FilesystemWrapper.directoriesFromPath *)

\* longest path of the exhaustive part of the path inputs
MaxPathLen == 4

Slash == "/"

PathChars == {Slash, "a", "b"}

\* String.prototype.split with a one-character separator
RECURSIVE split(_, _)
split(s, sep) ==
    IF ~includes(s, sep)
    THEN <<s>>
    ELSE LET i == indexOf(s, sep) + 1
         IN  <<SubSeq(s, 1, i - 1)>> \o split(SubSeq(s, i + 1, Len(s)), sep)

\* the loop of directoriesFromPath from token i (1-based) on
RECURSIVE addTokensFrom(_, _, _, _)
addTokensFrom(h, root, tokens, i) ==
    IF i > Len(tokens)
    THEN [threw |-> FALSE, heap |-> h, root |-> root]
    ELSE LET h1 == Alloc(h, NewFakeDirectory(tokens[i], Absent, Absent, Absent))
             r == addSubdirectory_(h1, root, Len(h1))
         IN  IF r.threw
             THEN [threw |-> TRUE, heap |-> r.heap, root |-> 0]
             ELSE addTokensFrom(r.heap, root, tokens, i + 1)

\* a directoriesFromPath that nests each token inside the one before it
RECURSIVE nestTokensFrom(_, _, _, _)
nestTokensFrom(h, parent, tokens, i) ==
    IF i > Len(tokens)
    THEN [threw |-> FALSE, heap |-> h, root |-> 1]
    ELSE LET h1 == Alloc(h, NewFakeDirectory(tokens[i], Absent, Absent, Absent))
             r == addSubdirectory_(h1, parent, Len(h1))
         IN  IF r.threw
             THEN [threw |-> TRUE, heap |-> r.heap, root |-> 0]
             ELSE nestTokensFrom(r.heap, r.ret, tokens, i + 1)

directoriesFromPath_nested(p) ==
    LET tokens == split(p, Slash)
        fs == basicFilesystem_(<<>>)
    IN  nestTokensFrom(fs.heap, fs.root, tokens, 1)

\* FilesystemWrapper.directoriesFromPath, on a heap of its own: whether it threw,
\* the heap after, the address of the root returned
directoriesFromPath_(p) ==
    LET tokens == split(p, Slash)
    IN  IF Len(tokens) = 0
        THEN [threw |-> TRUE, heap |-> <<>>, root |-> 0]
        ELSE LET fs == basicFilesystem_(<<>>)
             IN  IF fs.threw
                 THEN [threw |-> TRUE, heap |-> fs.heap, root |-> 0]
                 ELSE addTokensFrom(fs.heap, fs.root, tokens, 1)

\* the path arguments: every string over PathChars up to MaxPathLen, and paths
\* with the names of the two default directories
PathInputs ==
    SeqsUpTo(PathChars, MaxPathLen)
        \cup {LocalName, ICloudName,
              NameA \o <<Slash>> \o LocalName,
              NameA \o <<Slash>> \o ICloudName \o <<Slash>> \o NameB,
              LocalName \o <<Slash>> \o ICloudName,
              NameB \o <<Slash>> \o NameA \o <<Slash>> \o ExtMd}

NotRun == [done |-> FALSE, threw |-> FALSE, heap |-> <<>>, root |-> 0]

InitPath ==
    /\ path \in PathInputs
    /\ pres = NotRun

\* root = FilesystemWrapper.directoriesFromPath(path)
DirectoriesFromPath ==
    /\ ~pres.done
    /\ LET r == directoriesFromPath_(path)
       IN  pres' = [done |-> TRUE, threw |-> r.threw, heap |-> r.heap, root |-> r.root]
    /\ UNCHANGED <<path, arrays, file, snap, fop, written, dirs, dop, hist>>

NextPath == DirectoriesFromPath

----------------------------------------------------------------------------
(* Claims about FakeFile, checked under SpecFile *)

\* the internal tags array of the FakeFile
InternalTags == arrays[file.tags]

\* the addresses of the arrays handed out that a caller still holds
Snapshots == DOMAIN arrays \ {file.tags}

\* C2 (as claimed): after readExtendedAttribute(k), if the most recent write for k
\* was writeExtendedAttribute(v, k), the result is exactly v, the empty string included.
C2_RoundTrip ==
    (fop.op = "readExtendedAttribute" /\ written[fop.key].kind = "string")
        => fop.result = written[fop.key]

\* C7: the tag collection never holds two equal tags; addTag(t) right after addTag(t)
\* leaves the collection as it was; removeTag(t) with t absent leaves it unchanged.
C7_TagsUnique ==
    /\ [](\A i, j \in 1..Len(InternalTags) : InternalTags[i] = InternalTags[j] => i = j)
    /\ [][(fop.op = "addTag" /\ fop'.op = "addTag" /\ fop'.tag = fop.tag)
            => InternalTags' = InternalTags]_vars
    /\ [][(fop'.op = "removeTag" /\ ~includes(InternalTags, fop'.tag))
            => InternalTags' = InternalTags]_vars

\* C7 witness: addTag(t) was called on a file that already had t and one more tag
C7_Witness ==
    /\ fop.op = "addTag"
    /\ Len(InternalTags) = 2
    /\ InternalTags[1] = fop.tag

\* C8: a caller's change to a returned array leaves the file's tags and extended
\* attributes as they were, and addTag, removeTag and writeExtendedAttribute leave
\* every array returned earlier as it was.
C8_SnapshotsIndependent ==
    /\ [][fop'.op \in {"callerPush", "callerClear"}
            => (InternalTags' = InternalTags /\ file' = file)]_vars
    /\ [][fop'.op \in {"addTag", "removeTag", "writeExtendedAttribute"}
            => \A a \in Snapshots : arrays'[a] = arrays[a]]_vars

\* C8 witness: the caller emptied the array allTags() returned, which held two
\* tags, while the file still has both
C8_Witness ==
    /\ fop.op = "callerClear"
    /\ Len(InternalTags) = 2
    /\ snap # file.tags
    /\ arrays[snap] = <<>>

----------------------------------------------------------------------------
(* Claims about FakeDirectory, checked under SpecDir and SpecTree *)

\* the files a and b have the same name and the same extension
SameFile(a, b) ==
    /\ FakeFiles[a].name = FakeFiles[b].name
    /\ FakeFiles[a].extension = FakeFiles[b].extension

\* the file f collides with an element of the files list fs
Collides(fs, f) == \E i \in 1..Len(fs) : SameFile(fs[i], f)

\* C1 (as claimed): in every directory, no two entries of the files list have both
\* the same name and the same extension.
C1_FilesUnique ==
    \A d \in DirIds : \A i, j \in 1..Len(dirs[d].files) :
        SameFile(dirs[d].files[i], dirs[d].files[j]) => i = j

FirstCollision(old, batch) ==
    LET bad == {i \in 1..Len(batch) :
                   \/ Collides(old, batch[i])
                   \/ \E j \in 1..(i - 1) : SameFile(batch[j], batch[i])}
    IN  IF bad = {} THEN 0 ELSE CHOOSE i \in bad : \A j \in bad : i <= j

\* C6: addFiles(files) throws at the first element that collides with a child or
\* with an earlier element; the elements before it have been appended in order and
\* none from it on; without a collision all are appended in order.
C6_AddFiles ==
    [][dop'.op = "addFiles" =>
        LET old == dirs[dop'.this].files
            new == dirs'[dop'.this].files
            i == FirstCollision(old, dop'.files)
        IN  IF i = 0
            THEN ~dop'.threw /\ new = old \o dop'.files
            ELSE dop'.threw /\ new = old \o SubSeq(dop'.files, 1, i - 1)]_vars

\* C6 witness: addFiles threw at its second element after appending its first
C6_Witness ==
    /\ dop.op = "addFiles"
    /\ dop.threw
    /\ dop.n = 1
    /\ Len(dop.files) = 2

\* the names of the directories at the addresses ds, and of the files fs
DirNamesOf(ds) == [i \in 1..Len(ds) |-> dirs[ds[i]].name]
FileNamesOf(fs) == [i \in 1..Len(fs) |-> FakeFiles[fs[i]].name]

C5_AddSubdirectory ==
    [][/\ dop'.op = "addSubdirectory" =>
            LET old == dirs[dop'.this].subdirectories
                new == dirs'[dop'.this].subdirectories
            IN  /\ dop'.threw <=>
                      \E i \in 1..Len(old) : dirs[old[i]].name = dirs[dop'.dir].name
                /\ dop'.threw => new = old
                /\ ~dop'.threw => (new = Append(old, dop'.dir) /\ dop'.ret = dop'.dir)
       /\ (dop'.op = "addChained" /\ ~dop'.threw) =>
            LET kids == dirs'[dop'.this].subdirectories
                grandkids == dirs'[dop'.dir].subdirectories
            IN  /\ dop'.ret = dop'.dir
                /\ includes(kids, dop'.dir)
                /\ grandkids # <<>>
                /\ grandkids[Len(grandkids)] = dop'.grand]_vars

\* C5 witness: a chained attachment of three different directories succeeded
C5_Witness ==
    /\ dop.op = "addChained"
    /\ ~dop.threw
    /\ Cardinality({dop.this, dop.dir, dop.grand}) = 3

\* the directory at address d is a child subdirectory of the one at address p
ChildOf(d, p) == \E i \in 1..Len(dirs[p].subdirectories) : dirs[p].subdirectories[i] = d

\* the addresses reachable from address p by following subdirectories n times or fewer
RECURSIVE Descendants(_, _)
Descendants(p, n) ==
    IF n = 0 THEN {}
    ELSE LET kids == {d \in DirIds : ChildOf(d, p)}
         IN  kids \cup UNION {Descendants(k, n - 1) : k \in kids}

\* C10 (as claimed): no directory is a child subdirectory of two different
\* directories, and no directory is reachable from itself.
C10_StrictTree ==
    /\ \A d, p, q \in DirIds : (ChildOf(d, p) /\ ChildOf(d, q)) => p = q
    /\ \A d \in DirIds : d \notin Descendants(d, Len(dirs))

----------------------------------------------------------------------------
(* Claims about directoriesFromPath, checked under SpecPath *)

\* the tokens of the path as split gives them
Tokens == split(path, Slash)

\* String.prototype.join of the tokens with the separator
RECURSIVE Join(_)
Join(ts) ==
    IF Len(ts) = 1 THEN ts[1] ELSE ts[1] \o <<Slash>> \o Join(Tail(ts))

\* the listing of the root returned
PathContents ==
    [i \in 1..Len(pres.heap[pres.root].subdirectories) |->
        pres.heap[pres.heap[pres.root].subdirectories[i]].name]

\* every subdirectory of the root returned is empty: no token is nested in another
PathFlat ==
    \A i \in 1..Len(pres.heap[pres.root].subdirectories) :
        LET d == pres.heap[pres.root].subdirectories[i]
        IN  pres.heap[d].subdirectories = <<>> /\ pres.heap[d].files = <<>>

\* C3 (as claimed): for every path, directoriesFromPath completes without error
\* and the root lists "local", "iCloud" and then the tokens in order, none nested.
C3_AnyPath ==
    pres.done =>
        /\ ~pres.threw
        /\ PathContents = <<LocalName, ICloudName>> \o Tokens
        /\ PathFlat

\* the tokens are pairwise different and none is "local" or "iCloud"
TokensFresh ==
    /\ \A i, j \in 1..Len(Tokens) : Tokens[i] = Tokens[j] => i = j
    /\ \A i \in 1..Len(Tokens) : Tokens[i] \notin {LocalName, ICloudName}

\* C3 (amended): the tokens are what joins back to the path; directoriesFromPath
\* completes exactly when they are pairwise different and none is "local" or
\* "iCloud", and then the root lists "local", "iCloud" and the tokens in order,
\* none nested; otherwise it throws.
C3_FreshPath ==
    pres.done =>
        /\ Len(Tokens) >= 1
        /\ Join(Tokens) = path
        /\ \A i \in 1..Len(Tokens) : ~includes(Tokens[i], Slash)
        /\ pres.threw <=> ~TokensFresh
        /\ ~pres.threw =>
              /\ PathContents = <<LocalName, ICloudName>> \o Tokens
              /\ PathFlat
              /\ pres.heap[pres.root].name = RootName

\* C3 witness: a path of three different tokens, one of them empty, was built
C3_Witness ==
    /\ pres.done
    /\ ~pres.threw
    /\ Len(Tokens) = 3
    /\ includes(Tokens, EmptyStr)

----------------------------------------------------------------------------
(* Specifications *)

\* the variables of the other specifications are held at fixed values
InitFileOnly == InitFile /\ InitDir /\ path = <<>> /\ pres = NotRun

InitDirOnly == InitDir /\ InitFile /\ path = <<>> /\ pres = NotRun

InitTreeOnly == InitDir /\ InitFile /\ path = <<>> /\ pres = NotRun

InitPathOnly == InitPath /\ InitDir /\ InitFile

SpecFile == InitFileOnly /\ [][NextFile]_vars

SpecDir == InitDirOnly /\ [][NextDir]_vars

SpecTree == InitTreeOnly /\ [][NextTree]_vars

SpecPath == InitPathOnly /\ [][NextPath]_vars

====
